---------------------------- MODULE Spec2Model ----------------------------
(***************************************************************************)
(* A model of the metrics engine of Rankify (rankify/metrics/metrics.py):  *)
(* answer normalisation, the token-overlap scorers, corpus BLEU, top-K     *)
(* retrieval accuracy and the Metrics facade.                              *)
(*                                                                         *)
(* A Python str is a sequence of one-character strings.  A Python float    *)
(* that the code obtains by dividing two integers is an exact rational     *)
(* [n |-> numerator, d |-> denominator] in lowest terms.  A call either    *)
(* returns or raises; a raised exception is recorded by its class name.    *)
(***************************************************************************)
EXTENDS Integers, Sequences, FiniteSets, TLC

VARIABLES
    entry,              \* the entry point of the engine this run exercises
    s,                  \* normalize_answer: the argument of the first call
    normalized,         \* normalize_answer: the values returned so far, oldest first
    prediction,         \* one instance: the predicted answer string
    ground_truths,      \* one instance: the list of reference answer strings
    scored,             \* one instance: the scorer called and what it returned
    documents,          \* Metrics.documents: the batch of Document objects
    predictions,        \* the batch of generated answer strings
    outcome,            \* the call made on the batch and how it ended
    bleu,               \* the BLEUScore object, once constructed
    reference_corpus,   \* compute_bleu: per instance, the list of tokenised references
    translation_corpus, \* compute_bleu: per instance, the tokenised translation
    bleu_result,        \* compute_bleu: how the call ended
    retrieval           \* top_k_accuracy: the call made and the value returned

normVars  == <<s, normalized>>
scoreVars == <<prediction, ground_truths, scored>>
batchVars == <<documents, predictions, outcome>>
bleuVars  == <<bleu, reference_corpus, translation_corpus, bleu_result>>
vars == <<entry, s, normalized, prediction, ground_truths, scored,
          documents, predictions, outcome,
          bleu, reference_corpus, translation_corpus, bleu_result, retrieval>>

-----------------------------------------------------------------------------
(* Bounds of the model.                                                    *)

\* longest raw string handed to normalize_answer on its own
MaxStrLen == 4
\* most words in a predicted answer string
MaxPredWords == 2
\* most reference answers of one instance
MaxRefs == 2
\* most documents, and most predictions, in a batch
MaxDocs == 2
\* largest bleu_max_order a configuration sets
MaxOrder == 2
\* most references of one BLEU instance
MaxBleuRefs == 2
\* most tokens of a BLEU reference that is not the translation itself
MaxRefTokens == 1
\* most tokens of a BLEU translation
MaxTransTokens == 2
\* most instances of a BLEU corpus
MaxCorpus == 2
\* most retrieved contexts of one document
MaxContexts == 2
\* the values of k handed to top_k_accuracy run from -MaxK to MaxK
MaxK == 2

-----------------------------------------------------------------------------
(* Characters.                                                             *)

\* the characters raw strings are built from: lower and upper case letters,
\* a digit, the space, a punctuation mark and the underscore (a \w character)
Chars == {"a", "n", "T", "h", "e", "1", " ", ".", "_"}

UpperCase == {"A", "B", "C", "D", "E", "F", "G", "H", "I", "J", "K", "L", "M",
              "N", "O", "P", "Q", "R", "S", "T", "U", "V", "W", "X", "Y", "Z"}

LowerCase == {"a", "b", "c", "d", "e", "f", "g", "h", "i", "j", "k", "l", "m",
              "n", "o", "p", "q", "r", "s", "t", "u", "v", "w", "x", "y", "z"}

Digits == {"0", "1", "2", "3", "4", "5", "6", "7", "8", "9"}

\* str.lower() on one character
LowerChar(c) ==
    CASE c = "A" -> "a" [] c = "B" -> "b" [] c = "C" -> "c" [] c = "D" -> "d"
      [] c = "E" -> "e" [] c = "F" -> "f" [] c = "G" -> "g" [] c = "H" -> "h"
      [] c = "I" -> "i" [] c = "J" -> "j" [] c = "K" -> "k" [] c = "L" -> "l"
      [] c = "M" -> "m" [] c = "N" -> "n" [] c = "O" -> "o" [] c = "P" -> "p"
      [] c = "Q" -> "q" [] c = "R" -> "r" [] c = "S" -> "s" [] c = "T" -> "t"
      [] c = "U" -> "u" [] c = "V" -> "v" [] c = "W" -> "w" [] c = "X" -> "x"
      [] c = "Y" -> "y" [] c = "Z" -> "z" [] OTHER -> c

\* s.lower()
lower(text) == [i \in 1..Len(text) |-> LowerChar(text[i])]

\* the characters the class [^a-z0-9 ] does not match, i.e. the ones kept
KeptChars == LowerCase \cup Digits \cup {" "}

\* \w of the re module, on the characters of the model
IsWordChar(c) == c \in LowerCase \cup UpperCase \cup Digits \cup {"_"}

\* the whitespace str.split() splits on
IsSpace(c) == c \in {" ", "\t", "\n"}

\* the alternatives of the group (a|an|the), in the order the pattern tries them
Articles == << <<"a">>, <<"a", "n">>, <<"t", "h", "e">> >>

-----------------------------------------------------------------------------
(* normalize_answer.                                                       *)

\* re.sub(r'[^a-z0-9 ]', '', text)
remove_punctuation(text) == SelectSeq(text, LAMBDA c : c \in KeptChars)

\* \b at the gap before position i (1 <= i <= Len(text) + 1)
WordBoundary(text, i) ==
    LET before == i > 1 /\ IsWordChar(text[i - 1])
        after  == i <= Len(text) /\ IsWordChar(text[i])
    IN  before # after

\* the article alternative art matches at position i with \b on both sides
ArticleAt(text, i, art) ==
    /\ i + Len(art) - 1 <= Len(text)
    /\ SubSeq(text, i, i + Len(art) - 1) = art
    /\ WordBoundary(text, i)
    /\ WordBoundary(text, i + Len(art))

\* length of the match of \b(a|an|the)\b at position i, 0 when there is none
ArticleMatchLen(text, i) ==
    IF \E k \in 1..Len(Articles) : ArticleAt(text, i, Articles[k])
    THEN LET k == CHOOSE k \in 1..Len(Articles) :
                      /\ ArticleAt(text, i, Articles[k])
                      /\ \A j \in 1..(k - 1) : ~ArticleAt(text, i, Articles[j])
         IN  Len(Articles[k])
    ELSE 0

RECURSIVE SubArticlesFrom(_, _)
\* re.sub scanning from position i: leftmost non-overlapping matches become ' '
SubArticlesFrom(text, i) ==
    IF i > Len(text) THEN <<>>
    ELSE LET m == ArticleMatchLen(text, i)
         IN  IF m > 0 THEN <<" ">> \o SubArticlesFrom(text, i + m)
                      ELSE <<text[i]>> \o SubArticlesFrom(text, i + 1)

\* re.sub(r'\b(a|an|the)\b', ' ', text)
remove_articles(text) == SubArticlesFrom(text, 1)

RECURSIVE SplitFrom(_, _, _)
\* str.split() from position i with the word cur under construction
SplitFrom(text, i, cur) ==
    IF i > Len(text) THEN (IF cur = <<>> THEN <<>> ELSE <<cur>>)
    ELSE IF IsSpace(text[i])
         THEN (IF cur = <<>> THEN <<>> ELSE <<cur>>) \o SplitFrom(text, i + 1, <<>>)
         ELSE SplitFrom(text, i + 1, Append(cur, text[i]))

\* text.split(): the maximal runs of non-whitespace characters
split(text) == SplitFrom(text, 1, <<>>)

RECURSIVE join(_)
\* ' '.join(words)
join(words) ==
    IF words = <<>> THEN <<>>
    ELSE IF Len(words) = 1 THEN words[1]
    ELSE words[1] \o <<" ">> \o join(Tail(words))

\* ' '.join(text.split())
white_space_fix(text) == join(split(text))

\* a variant that matches articles before lower-casing and stripping
\* punctuation
normalize_answer_ArticlesFirst(text) ==
    white_space_fix(remove_punctuation(lower(remove_articles(text))))

\* normalize_answer(s)
normalize_answer(text) ==
    white_space_fix(remove_articles(remove_punctuation(lower(text))))

-----------------------------------------------------------------------------
(* Exact rationals for the floats the scorers compute.                     *)

RECURSIVE GCD(_, _)
GCD(a, b) == IF b = 0 THEN a ELSE GCD(b, a % b)

\* n / d for integers n >= 0 and d > 0, in lowest terms
Rat(n, d) == LET g == GCD(n, d) IN [n |-> n \div g, d |-> d \div g]

Zero == Rat(0, 1)
One  == Rat(1, 1)

RatAdd(a, b) == Rat(a.n * b.d + b.n * a.d, a.d * b.d)
RatMul(a, b) == Rat(a.n * b.n, a.d * b.d)
\* a / b for b > 0
RatDiv(a, b) == Rat(a.n * b.d, a.d * b.n)
RatLE(a, b)  == a.n * b.d <= b.n * a.d
RatLT(a, b)  == a.n * b.d < b.n * a.d
\* a variant that keeps the newly computed score whatever the best so far is
RatMax_First(a, b) == a

\* max(a, b) of Python: a unless b is greater
RatMax(a, b) == IF RatLT(a, b) THEN b ELSE a

RECURSIVE RatSum(_)
\* sum(values)
RatSum(values) ==
    IF values = <<>> THEN Zero ELSE RatAdd(values[1], RatSum(Tail(values)))

-----------------------------------------------------------------------------
(* The per-instance scorers.                                               *)

\* the elements of a sequence
Range(seq) == {seq[i] : i \in 1..Len(seq)}

\* Counter(tokens)[tok]
Count(tokens, tok) == Cardinality({i \in 1..Len(tokens) : tokens[i] = tok})

RECURSIVE SumOver(_, _, _)
\* the sum over the keys in S of min(Counter(a)[key], Counter(b)[key])
SumOver(S, a, b) ==
    IF S = {} THEN 0
    ELSE LET key == CHOOSE x \in S : TRUE
             ca  == Count(a, key)
             cb  == Count(b, key)
         IN  (IF ca < cb THEN ca ELSE cb) + SumOver(S \ {key}, a, b)

RECURSIVE SumLarger(_, _, _)
\* the sum over the keys in S of max(Counter(a)[key], Counter(b)[key])
SumLarger(S, a, b) ==
    IF S = {} THEN 0
    ELSE LET key == CHOOSE x \in S : TRUE
             ca  == Count(a, key)
             cb  == Count(b, key)
         IN  (IF ca < cb THEN cb ELSE ca) + SumLarger(S \ {key}, a, b)

\* a variant that counts each common token as often as the list with more
\* copies of it holds it (| where the code has &)
NumSame_Larger(pred_tokens, truth_tokens) ==
    SumLarger(Range(pred_tokens) \cap Range(truth_tokens), pred_tokens, truth_tokens)

\* sum((Counter(pred_tokens) & Counter(truth_tokens)).values())
NumSame(pred_tokens, truth_tokens) ==
    SumOver(Range(pred_tokens) \cap Range(truth_tokens), pred_tokens, truth_tokens)

\* ExactMatch.calculate_em: 1.0 when a normalised reference equals the
\* normalised prediction, else 0.0
calculate_em(pred, golden_answers) ==
    LET normalized_prediction == normalize_answer(pred)
    IN  IF \E i \in 1..Len(golden_answers) :
               normalize_answer(golden_answers[i]) = normalized_prediction
        THEN One ELSE Zero

\* needle in haystack, for Python strings
IsSubstring(needle, haystack) ==
    \E i \in 1..(Len(haystack) - Len(needle) + 1) :
        SubSeq(haystack, i, i + Len(needle) - 1) = needle

\* ContainsMatch.calculate_contains
calculate_contains(pred, golden_answers) ==
    LET normalized_prediction == normalize_answer(pred)
    IN  IF \E i \in 1..Len(golden_answers) :
               IsSubstring(normalize_answer(golden_answers[i]), normalized_prediction)
        THEN One ELSE Zero

\* a variant whose f1 lacks the factor 2 of the harmonic mean
HarmonicMean_NoFactor(precision, recall) ==
    RatDiv(RatMul(precision, recall), RatAdd(precision, recall))

\* f1 = (2 * precision * recall) / (precision + recall)
HarmonicMean(precision, recall) ==
    RatDiv(RatMul(Rat(2, 1), RatMul(precision, recall)), RatAdd(precision, recall))

\* the three max(...) updates of final_metric
UpdateMetric(final_metric, precision, recall) ==
    [f1        |-> RatMax(HarmonicMean(precision, recall), final_metric.f1),
     precision |-> RatMax(precision, final_metric.precision),
     recall    |-> RatMax(recall, final_metric.recall)]

\* the loop body from num_same on: a reference with no common token is
\* skipped
ScoreTokens(final_metric, num_same, pred_tokens, truth_tokens) ==
    IF num_same = 0 THEN final_metric
    ELSE UpdateMetric(final_metric, Rat(num_same, Len(pred_tokens)),
                      Rat(num_same, Len(truth_tokens)))

\* the loop body on the token lists of the prediction and of one reference
CompareTokens(final_metric, pred_tokens, truth_tokens) ==
    ScoreTokens(final_metric, NumSame(pred_tokens, truth_tokens),
                pred_tokens, truth_tokens)

\* one pass of the loop body of F1Score.token_level_scores
ScoreReference(final_metric, pred, ground_truth) ==
    CompareTokens(final_metric, split(normalize_answer(pred)),
                  split(normalize_answer(ground_truth)))

RECURSIVE ScoreFrom(_, _, _, _)
\* the loop of token_level_scores from reference i on
ScoreFrom(final_metric, pred, golden_answers, i) ==
    IF i > Len(golden_answers) THEN final_metric
    ELSE ScoreFrom(ScoreReference(final_metric, pred, golden_answers[i]),
                   pred, golden_answers, i + 1)

\* F1Score.token_level_scores
token_level_scores(pred, golden_answers) ==
    ScoreFrom([f1 |-> Zero, precision |-> Zero, recall |-> Zero],
              pred, golden_answers, 1)

-----------------------------------------------------------------------------
(* BLEUScore.                                                              *)

Min(a, b) == IF a < b THEN a ELSE b
Max(a, b) == IF a < b THEN b ELSE a

\* zip(a, b): pairs up to the end of the shorter list
Zip(a, b) == [i \in 1..Min(Len(a), Len(b)) |-> <<a[i], b[i]>>]

RECURSIVE SumSeq(_)
\* the sum of a list of integers
SumSeq(xs) == IF xs = <<>> THEN 0 ELSE xs[1] + SumSeq(Tail(xs))

RECURSIVE SumCounts(_, _)
\* the sum of counter[g] over the keys g in S
SumCounts(counter, S) ==
    IF S = {} THEN 0
    ELSE LET g == CHOOSE x \in S : TRUE
         IN  counter[g] + SumCounts(counter, S \ {g})

\* counter[g] of a collections.Counter: 0 for a missing key
CountOf(counter, g) == IF g \in DOMAIN counter THEN counter[g] ELSE 0

\* BLEUScore._get_ngrams: every window of 1..max_order tokens, counted
get_ngrams(segment, max_order) ==
    LET ngrams == UNION {{SubSeq(segment, i, i + order - 1) :
                             i \in 1..(Len(segment) - order + 1)} :
                         order \in 1..max_order}
    IN  [g \in ngrams |->
            Cardinality({i \in 1..(Len(segment) - Len(g) + 1) :
                            SubSeq(segment, i, i + Len(g) - 1) = g})]

\* a variant that merges two Counters by adding the counts of a key
CounterUnion_Added(a, b) ==
    [g \in DOMAIN a \cup DOMAIN b |-> CountOf(a, g) + CountOf(b, g)]

\* a | b of two Counters: per key the larger count
CounterUnion(a, b) ==
    [g \in DOMAIN a \cup DOMAIN b |-> Max(CountOf(a, g), CountOf(b, g))]

\* a variant that adds the two counts of a common key instead of clipping
CounterIntersect_Added(a, b) ==
    [g \in DOMAIN a \cap DOMAIN b |-> a[g] + b[g]]

\* a & b of two Counters: per key the smaller count, positive counts only
CounterIntersect(a, b) ==
    [g \in {x \in DOMAIN a \cap DOMAIN b : Min(a[x], b[x]) > 0} |-> Min(a[g], b[g])]

RECURSIVE MergeRefs(_, _, _)
\* merged_ref_ngram_counts after the references from i on were merged in
MergeRefs(merged, references, max_order) ==
    IF references = <<>> THEN merged
    ELSE MergeRefs(CounterUnion(merged, get_ngrams(Head(references), max_order)),
                   Tail(references), max_order)

\* the empty collections.Counter()
EmptyCounter == [g \in {} |-> 0]

\* overlap of one instance: translation n-grams clipped by the merged references
Overlap(references, translation, max_order) ==
    CounterIntersect(get_ngrams(translation, max_order),
                     MergeRefs(EmptyCounter, references, max_order))

\* what one instance adds to matches_by_order[order - 1]
InstanceMatches(references, translation, max_order, order) ==
    LET overlap == Overlap(references, translation, max_order)
    IN  SumCounts(overlap, {g \in DOMAIN overlap : Len(g) = order})

\* a variant that counts one window too few (len(translation) - order)
InstancePossible_OneLess(translation, order) ==
    LET possible_matches == Len(translation) - order
    IN  IF possible_matches > 0 THEN possible_matches ELSE 0

\* what one instance adds to possible_matches_by_order[order - 1]
InstancePossible(translation, order) ==
    LET possible_matches == Len(translation) - order + 1
    IN  IF possible_matches > 0 THEN possible_matches ELSE 0

\* min(len(r) for r in references), for a non-empty list of references
ShortestLen(references) ==
    CHOOSE n \in {Len(references[j]) : j \in 1..Len(references)} :
        \A j \in 1..Len(references) : n <= Len(references[j])

RECURSIVE RatProduct(_)
RatProduct(values) ==
    IF values = <<>> THEN One ELSE RatMul(values[1], RatProduct(Tail(values)))

\* what a call of compute_bleu that raised leaves behind
BleuRaised(error) ==
    [error |-> error, matches_by_order |-> <<>>, possible_matches_by_order |-> <<>>,
     reference_length |-> 0, translation_length |-> 0,
     precisions |-> <<>>, bleu_power |-> Zero]

\* BLEUScore.compute_bleu.  The returned float bleu is the geometric mean
\* exp(sum(log p) / max_order) of the precisions, or 0.0 when one of them is
\* zero; it is recorded by bleu_power = bleu ** max_order, the product of the
\* precisions, which is rational and determines bleu (bleu = 1.0 exactly
\* when every log is 0.0, that is when bleu_power = 1).
compute_bleu(max_order, smooth, ref_corpus, trans_corpus) ==
    LET pairs == Zip(ref_corpus, trans_corpus)
        refs(i)  == pairs[i][1]
        trans(i) == pairs[i][2]
        order_range == 1..max_order
        matches_by_order ==
            [order \in order_range |->
                SumSeq([i \in 1..Len(pairs) |->
                          InstanceMatches(refs(i), trans(i), max_order, order)])]
        possible_matches_by_order ==
            [order \in order_range |->
                SumSeq([i \in 1..Len(pairs) |-> InstancePossible(trans(i), order)])]
        precisions ==
            [order \in order_range |->
                IF smooth
                THEN Rat(matches_by_order[order] + 1, possible_matches_by_order[order] + 1)
                ELSE IF possible_matches_by_order[order] > 0
                     THEN Rat(matches_by_order[order], possible_matches_by_order[order])
                     ELSE Zero]
        positive == \A order \in order_range : RatLT(Zero, precisions[order])
    IN  IF \E i \in 1..Len(pairs) : refs(i) = <<>>
        THEN BleuRaised("ValueError")   \* min() of an empty sequence, line 307
        ELSE IF max_order <= 0
        THEN BleuRaised("ValueError")   \* min() of an empty sequence, line 329
        ELSE [error |-> "none",
              matches_by_order |-> matches_by_order,
              possible_matches_by_order |-> possible_matches_by_order,
              reference_length |->
                  SumSeq([i \in 1..Len(pairs) |-> ShortestLen(refs(i))]),
              translation_length |->
                  SumSeq([i \in 1..Len(pairs) |-> Len(trans(i))]),
              precisions |-> precisions,
              bleu_power |-> IF positive THEN RatProduct(precisions) ELSE Zero]

-----------------------------------------------------------------------------
(* The scorers' calculate_metric and the Metrics facade.                   *)

\* BaseMetric.get_dataset_answer
get_dataset_answer(docs) == [i \in 1..Len(docs) |-> docs[i].answers]

\* score * 100
Percent(score) == RatMul(score, Rat(100, 1))

\* the five scorers of the facade, in the order of metric_classes
metric_classes == <<"ExactMatch", "F1Score", "PrecisionScore", "RecallScore",
                    "ContainsMatch">>

\* the key under which a scorer reports its aggregate
metric_key(cls) ==
    CASE cls = "ExactMatch"     -> "exact_match"
      [] cls = "F1Score"        -> "f1_score"
      [] cls = "PrecisionScore" -> "precision"
      [] cls = "RecallScore"    -> "recall"
      [] cls = "ContainsMatch"  -> "contains_match"

\* the per-instance score a scorer's calculate_metric collects
instance_score(cls, pred, golden_answers) ==
    CASE cls = "ExactMatch"     -> calculate_em(pred, golden_answers)
      [] cls = "F1Score"        -> token_level_scores(pred, golden_answers).f1
      [] cls = "PrecisionScore" -> token_level_scores(pred, golden_answers).precision
      [] cls = "RecallScore"    -> token_level_scores(pred, golden_answers).recall
      [] cls = "ContainsMatch"  -> calculate_contains(pred, golden_answers)

\* the empty dict
EmptyDict == [key \in {} |-> Zero]

\* a call that raised: no value is returned
Raised(error) ==
    [error |-> error, scores |-> EmptyDict, metric_score_list |-> <<>>]

\* the scores of the zipped (prediction, references) pairs
ScoreList(cls, pairs) ==
    [i \in 1..Len(pairs) |-> instance_score(cls, pairs[i][1], pairs[i][2])]

\* sum(metric_score_list) / len(metric_score_list), for a non-empty list
Mean(metric_score_list) ==
    RatDiv(RatSum(metric_score_list), Rat(Len(metric_score_list), 1))

\* a variant that reports 0 for an empty list of instances instead of dividing
Aggregate_GuardedMean(cls, metric_score_list) ==
    [error |-> "none",
     scores |-> (metric_key(cls) :>
                    Percent(IF Len(metric_score_list) = 0 THEN Zero
                            ELSE Mean(metric_score_list))),
     metric_score_list |-> metric_score_list]

\* the aggregate of a scorer: the mean of the instances' scores as a
\* percentage; sum([]) / len([]) raises
Aggregate(cls, metric_score_list) ==
    IF Len(metric_score_list) = 0
    THEN Raised("ZeroDivisionError")
    ELSE [error |-> "none",
          scores |-> (metric_key(cls) :> Percent(Mean(metric_score_list))),
          metric_score_list |-> metric_score_list]

\* calculate_metric of ExactMatch, F1Score, PrecisionScore, RecallScore and
\* ContainsMatch
calculate_metric(cls, docs, preds) ==
    Aggregate(cls, ScoreList(cls, Zip(preds, get_dataset_answer(docs))))

RECURSIVE GenerationLoop(_, _, _, _)
\* results.update(r) and on to the next metric class; an exception ends
\* the loop
UpdateResults(r, results, i, docs, preds) ==
    IF r.error # "none" THEN Raised(r.error)
    ELSE GenerationLoop(r.scores @@ results, i + 1, docs, preds)

\* the loop of calculate_generation_metrics from metric class i on
GenerationLoop(results, i, docs, preds) ==
    IF i > Len(metric_classes)
    THEN [error |-> "none", scores |-> results, metric_score_list |-> <<>>]
    ELSE UpdateResults(calculate_metric(metric_classes[i], docs, preds),
                       results, i, docs, preds)

\* Metrics.calculate_generation_metrics
calculate_generation_metrics(docs, preds) ==
    GenerationLoop(EmptyDict, 1, docs, preds)

\* config.get(key, default)
ConfigGet(config, key, default) == IF key \in DOMAIN config THEN config[key] ELSE default

\* bleu_max_order when the configuration does not set it
DefaultMaxOrder == 4

\* BLEUScore.__init__: reads the two options, checks neither
BLEUScore(config) ==
    [constructed |-> TRUE,
     max_order |-> ConfigGet(config, "bleu_max_order", DefaultMaxOrder),
     smooth    |-> ConfigGet(config, "bleu_smooth", FALSE)]

\* BLEUScore.calculate_metric on an object with the given max_order and smooth
bleu_calculate_metric(max_order, smooth, docs, preds) ==
    LET pred_list == [i \in 1..Len(preds) |-> split(normalize_answer(preds[i]))]
        answers == get_dataset_answer(docs)
        golden_answers_list ==
            [i \in 1..Len(docs) |->
                [j \in 1..Len(answers[i]) |-> split(normalize_answer(answers[i][j]))]]
    IN  compute_bleu(max_order, smooth, golden_answers_list, pred_list)

-----------------------------------------------------------------------------
(* Metrics.top_k_accuracy.                                                 *)

\* a variant that drops the first k elements (seq[k:]) instead of keeping them
SliceTo_DropFirst(seq, k) ==
    IF k >= 0 THEN SubSeq(seq, Min(k, Len(seq)) + 1, Len(seq))
    ELSE SubSeq(seq, Max(Len(seq) + k, 0) + 1, Len(seq))

\* seq[:k] of Python: the first k elements, or for k < 0 all but the last -k
SliceTo(seq, k) ==
    IF k >= 0 THEN SubSeq(seq, 1, Min(k, Len(seq)))
    ELSE SubSeq(seq, 1, Max(Len(seq) + k, 0))

\* a variant that reads reorder_contexts whenever use_reordered is set, even
\* when the document was never reranked
contexts_to_use_NoFallback(document, use_reordered) ==
    IF use_reordered THEN document.reorder_contexts ELSE document.contexts

\* the list top_k_accuracy reads for one document
contexts_to_use(document, use_reordered) ==
    IF use_reordered /\ document.reorder_contexts # <<>>
    THEN document.reorder_contexts
    ELSE document.contexts

\* any(context.has_answer for context in contexts_to_use[:k])
IsHit(document, k, use_reordered) ==
    LET top == SliceTo(contexts_to_use(document, use_reordered), k)
    IN  \E i \in 1..Len(top) : top[i]

\* Metrics.top_k_accuracy
top_k_accuracy(docs, k, use_reordered) ==
    LET hits  == Cardinality({i \in 1..Len(docs) : IsHit(docs[i], k, use_reordered)})
        total == Len(docs)
    IN  IF total > 0 THEN Percent(Rat(hits, total)) ELSE Zero

-----------------------------------------------------------------------------
(* Inputs.                                                                 *)

\* every sequence over S of length at most n
SeqUpTo(S, n) == UNION {[1..m -> S] : m \in 0..n}

RawStrings == SeqUpTo(Chars, MaxStrLen)

\* the words answer strings are made of: an article, a plain word, a word
\* written with an upper-case letter and a punctuation mark
Vocabulary == { <<"t", "h", "e">>, <<"x">>, <<"Y", ".">> }

\* the answer strings of at most n words, single spaces between the words
Texts(n) == {join(ws) : ws \in SeqUpTo(Vocabulary, n)}

\* the reference answers of the documents of a batch
AnswerTexts == << <<"t", "h", "e">>, <<"x">> >>

\* the reference answers of one instance: empty, an article only, single
\* words, two words
ReferenceTexts == Texts(1) \cup { <<"x", " ", "Y", ".">> }

\* the predictions of a batch: empty, an article only, a word
PredictionTexts == { <<>>, <<"T", "h", "e">>, <<"x">> }

\* a Document with reference answers and no retrieved contexts
AnswerDocs ==
    {[answers |-> a, contexts |-> <<>>, reorder_contexts |-> <<>>] :
        a \in {<<>>, <<AnswerTexts[1]>>, <<AnswerTexts[2]>>, AnswerTexts}}

\* the configurations of a BLEUScore: the options left out, or both set
BleuConfigs(orders) ==
    {[dataset_name |-> "QA_Evaluation"]}
    \cup {[dataset_name |-> "QA_Evaluation", bleu_max_order |-> n, bleu_smooth |-> b] :
             n \in orders, b \in BOOLEAN}

\* the orderings of a list
Orderings(seq) ==
    {[i \in 1..Len(seq) |-> seq[f[i]]] :
        f \in {g \in [1..Len(seq) -> 1..Len(seq)] :
                  \A i, j \in 1..Len(seq) : i # j => g[i] # g[j]}}

\* a Document with retrieved contexts, each given by its has_answer flag,
\* not yet reranked or reranked into some order
ContextDocs ==
    {[answers |-> <<>>, contexts |-> c, reorder_contexts |-> r] :
        c \in SeqUpTo(BOOLEAN, MaxContexts), r \in SeqUpTo(BOOLEAN, MaxContexts)}

\* the tokens of a BLEU corpus
Tokens == { <<"x">>, <<"y">> }

-----------------------------------------------------------------------------
(* The normaliser called on a raw string and again on its own output.      *)

\* the normaliser has not been called
IdleNorm == s = <<>> /\ normalized = <<>>

\* no instance has been scored
IdleScore == prediction = <<>> /\ ground_truths = <<>> /\ scored = [fn |-> "none"]

\* no batch has been handed to the engine
IdleBatch == documents = <<>> /\ predictions = <<>> /\ outcome = [status |-> "pending"]

\* no BLEUScore exists
IdleBleu ==
    /\ bleu = [constructed |-> FALSE]
    /\ reference_corpus = <<>> /\ translation_corpus = <<>>
    /\ bleu_result = [status |-> "pending"]

\* top_k_accuracy has not been called
IdleTopK == retrieval = [status |-> "pending"]

-----------------------------------------------------------------------------
(* The normaliser called on a raw string and again on its own output.      *)

InitNorm ==
    /\ entry = "normalize_answer"
    /\ s \in RawStrings
    /\ normalized = <<>>
    /\ IdleScore /\ IdleBatch /\ IdleBleu /\ IdleTopK

\* normalize_answer(s)
Normalize ==
    /\ entry = "normalize_answer"
    /\ normalized = <<>>
    /\ normalized' = <<normalize_answer(s)>>
    /\ UNCHANGED <<entry, s, scoreVars, batchVars, bleuVars, retrieval>>

\* normalize_answer applied to the value the previous call returned
NormalizeAgain ==
    /\ entry = "normalize_answer"
    /\ Len(normalized) = 1
    /\ normalized' = Append(normalized, normalize_answer(normalized[1]))
    /\ UNCHANGED <<entry, s, scoreVars, batchVars, bleuVars, retrieval>>

NextNorm == Normalize \/ NormalizeAgain

SpecNorm == InitNorm /\ [][NextNorm]_vars

-----------------------------------------------------------------------------
(* token_level_scores called on one prediction and its references.         *)

InitScore ==
    /\ entry = "token_level_scores"
    /\ prediction \in Texts(MaxPredWords)
    /\ ground_truths \in SeqUpTo(ReferenceTexts, MaxRefs)
    /\ scored = [fn |-> "none"]
    /\ IdleNorm /\ IdleBatch /\ IdleBleu /\ IdleTopK

\* F1Score(config).token_level_scores(prediction, ground_truths)
TokenLevelScores ==
    /\ entry = "token_level_scores"
    /\ scored.fn = "none"
    /\ scored' = [fn |-> "token_level_scores",
                  value |-> token_level_scores(prediction, ground_truths)]
    /\ UNCHANGED <<entry, prediction, ground_truths, normVars, batchVars, bleuVars, retrieval>>

NextScore == TokenLevelScores

SpecScore == InitScore /\ [][NextScore]_vars

-----------------------------------------------------------------------------
(* A batch of documents and predictions handed to the facade or to one     *)
(* scorer.                                                                 *)

InitBatch ==
    /\ entry = "batch"
    /\ documents \in SeqUpTo(AnswerDocs, MaxDocs)
    /\ predictions \in SeqUpTo(PredictionTexts, MaxDocs)
    /\ outcome = [status |-> "pending"]
    /\ IdleNorm /\ IdleScore /\ IdleBleu /\ IdleTopK

\* how a call that produced the record r ended
Ended(callee, r) ==
    [status |-> IF r.error = "none" THEN "returned" ELSE "raised",
     callee |-> callee, result |-> r]

\* Metrics(documents).calculate_generation_metrics(predictions)
CalculateGenerationMetrics ==
    /\ entry = "batch"
    /\ outcome.status = "pending"
    /\ outcome' = Ended("calculate_generation_metrics",
                        calculate_generation_metrics(documents, predictions))
    /\ UNCHANGED <<entry, documents, predictions, normVars, scoreVars, bleuVars, retrieval>>

\* cls(config).calculate_metric(data) for one of the five mean-based scorers
CalculateMetric ==
    /\ entry = "batch"
    /\ outcome.status = "pending"
    /\ \E i \in 1..Len(metric_classes) :
          outcome' = Ended(metric_classes[i],
                           calculate_metric(metric_classes[i], documents, predictions))
    /\ UNCHANGED <<entry, documents, predictions, normVars, scoreVars, bleuVars, retrieval>>

\* BLEUScore(config).calculate_metric(data) with a valid bleu_max_order
CalculateMetricBleu ==
    /\ entry = "batch"
    /\ outcome.status = "pending"
    /\ \E config \in BleuConfigs(1..MaxOrder) :
          LET metric == BLEUScore(config)
              r == bleu_calculate_metric(metric.max_order, metric.smooth,
                                         documents, predictions)
          IN  outcome' = [status |-> IF r.error = "none" THEN "returned" ELSE "raised",
                          callee |-> "BLEUScore", metric |-> metric, result |-> r,
                          \* [bleu_score] * len(pred_list)
                          n_scores |-> Len(predictions)]
    /\ UNCHANGED <<entry, documents, predictions, normVars, scoreVars, bleuVars, retrieval>>

NextBatch == CalculateGenerationMetrics \/ CalculateMetric \/ CalculateMetricBleu

SpecBatch == InitBatch /\ [][NextBatch]_vars

-----------------------------------------------------------------------------
(* A BLEUScore constructed from a configuration, then compute_bleu on a    *)
(* tokenised corpus.                                                       *)

\* corpora of one instance with any references
SingleInstanceCorpora ==
    {[refs |-> <<r>>, trans |-> <<tr>>] :
        r \in SeqUpTo(SeqUpTo(Tokens, MaxRefTokens), MaxBleuRefs),
        tr \in SeqUpTo(Tokens, MaxTransTokens)}

\* corpora in which every translation is its own single reference
SelfReferenceCorpora ==
    {[refs |-> [i \in 1..Len(trs) |-> <<trs[i]>>], trans |-> trs] :
        trs \in SeqUpTo(SeqUpTo(Tokens, MaxTransTokens), MaxCorpus)}

InitBleu ==
    /\ entry = "compute_bleu"
    /\ bleu = [constructed |-> FALSE]
    /\ \E c \in SingleInstanceCorpora \cup SelfReferenceCorpora :
          reference_corpus = c.refs /\ translation_corpus = c.trans
    /\ bleu_result = [status |-> "pending"]
    /\ IdleNorm /\ IdleScore /\ IdleBatch /\ IdleTopK

\* BLEUScore(config)
ConstructBleu ==
    /\ entry = "compute_bleu"
    /\ ~bleu.constructed
    /\ \E config \in BleuConfigs((-1)..MaxOrder) : bleu' = BLEUScore(config)
    /\ UNCHANGED <<entry, reference_corpus, translation_corpus, bleu_result,
                   normVars, scoreVars, batchVars, retrieval>>

\* bleu.compute_bleu(reference_corpus, translation_corpus)
ComputeBleu ==
    /\ entry = "compute_bleu"
    /\ bleu.constructed
    /\ bleu_result.status = "pending"
    /\ LET r == compute_bleu(bleu.max_order, bleu.smooth,
                             reference_corpus, translation_corpus)
       IN  bleu_result' = [status |-> IF r.error = "none" THEN "returned" ELSE "raised",
                           raised_in |-> IF r.error = "none" THEN "" ELSE "compute_bleu",
                           result |-> r]
    /\ UNCHANGED <<entry, bleu, reference_corpus, translation_corpus,
                   normVars, scoreVars, batchVars, retrieval>>

NextBleu == ConstructBleu \/ ComputeBleu

SpecBleu == InitBleu /\ [][NextBleu]_vars

-----------------------------------------------------------------------------
(* top_k_accuracy called on a set of retrieved, possibly reranked,         *)
(* documents.                                                              *)

\* reorder_contexts is unset, or the contexts in the order a reranker chose
IsRetrieved(document) ==
    \/ document.reorder_contexts = <<>>
    \/ document.reorder_contexts \in Orderings(document.contexts)

InitTopK ==
    /\ entry = "top_k_accuracy"
    /\ documents \in SeqUpTo({d \in ContextDocs : IsRetrieved(d)}, MaxDocs)
    /\ predictions = <<>>
    /\ outcome = [status |-> "pending"]
    /\ retrieval = [status |-> "pending"]
    /\ IdleNorm /\ IdleScore /\ IdleBleu

\* Metrics(documents).top_k_accuracy(k, use_reordered)
TopKAccuracy ==
    /\ entry = "top_k_accuracy"
    /\ retrieval.status = "pending"
    /\ \E k \in (-MaxK)..MaxK, use_reordered \in BOOLEAN :
          retrieval' = [status |-> "returned", k |-> k, use_reordered |-> use_reordered,
                        value |-> top_k_accuracy(documents, k, use_reordered)]
    /\ UNCHANGED <<entry, documents, predictions, outcome, normVars, scoreVars, bleuVars>>

NextTopK == TopKAccuracy

SpecTopK == InitTopK /\ [][NextTopK]_vars

-----------------------------------------------------------------------------
(* The token-overlap scorers, per instance and over a batch.               *)

SpecTokenScores == (InitScore \/ InitBatch) /\ [][NextScore \/ NextBatch]_vars

-----------------------------------------------------------------------------
(* Properties of normalize_answer.                                         *)

\* the properties C7 lists of a string the normaliser returned
IsNormalForm(out) ==
    /\ \A i \in 1..Len(out) : out[i] \notin UpperCase /\ out[i] \in KeptChars
    /\ \A i \in 1..Len(out) : ArticleMatchLen(out, i) = 0
    /\ out # <<>> => out[1] # " " /\ out[Len(out)] # " "
    /\ \A i \in 1..(Len(out) - 1) : ~(out[i] = " " /\ out[i + 1] = " ")

\* C7: normalize_answer is idempotent: normalising its own output returns
\* that output unchanged; and its output holds no upper-case letter, no
\* character outside [a-z0-9 ], no whole-word a/an/the, no leading or
\* trailing space and no two consecutive spaces.
C7_NormalizeIdempotent ==
    /\ Len(normalized) >= 1 => IsNormalForm(normalized[1])
    /\ Len(normalized) = 2 => normalized[2] = normalized[1]

\* a raw string that the first call changed, to something non-empty, and
\* that was then normalised a second time
C7_Witness ==
    /\ Len(normalized) = 2
    /\ normalized[1] # s
    /\ normalized[1] # <<>>
    /\ \E i \in 1..Len(s) : s[i] \in UpperCase
    /\ \E i \in 1..Len(s) : ArticleMatchLen(lower(s), i) > 0

-----------------------------------------------------------------------------
(* Properties of token_level_scores.                                       *)

\* reference i and the prediction normalise to the same token list
TokenIdentical(i) ==
    split(normalize_answer(ground_truths[i])) = split(normalize_answer(prediction))

AllOne(m) == m.f1 = One /\ m.precision = One /\ m.recall = One

\* C4 as stated: whenever the normalised prediction is token-identical to a
\* normalised reference, the zero-token case included, token_level_scores
\* returns f1 = precision = recall = 1.0.
C4_IdenticalScoresOne ==
    (/\ scored.fn = "token_level_scores"
     /\ \E i \in 1..Len(ground_truths) : TokenIdentical(i))
    => AllOne(scored.value)

\* C4 amended: whenever the normalised prediction is token-identical to a
\* normalised reference and holds at least one token, token_level_scores
\* returns f1 = precision = recall = 1.0; when the prediction normalises to
\* zero tokens all three are 0.
C4_IdenticalNonEmptyScoresOne ==
    scored.fn = "token_level_scores" =>
        /\ (/\ split(normalize_answer(prediction)) # <<>>
            /\ \E i \in 1..Len(ground_truths) : TokenIdentical(i))
           => AllOne(scored.value)
        /\ split(normalize_answer(prediction)) = <<>>
           => scored.value = [f1 |-> Zero, precision |-> Zero, recall |-> Zero]

\* a scored prediction of at least one token whose raw string differs from
\* the raw reference it is token-identical to
C4_Witness ==
    /\ scored.fn = "token_level_scores"
    /\ split(normalize_answer(prediction)) # <<>>
    /\ \E i \in 1..Len(ground_truths) :
           TokenIdentical(i) /\ ground_truths[i] # prediction

-----------------------------------------------------------------------------
(* Properties of the facade and of the scorers over a batch.               *)

FacadeEnded ==
    outcome.status # "pending" /\ outcome.callee = "calculate_generation_metrics"

\* C1: calculate_generation_metrics validates len(predictions) ==
\* len(documents): whenever the two lengths differ the call ends in an error
\* and returns no result mapping.
C1_LengthMismatchRejected ==
    (FacadeEnded /\ Len(predictions) # Len(documents))
    => (outcome.status = "raised" /\ outcome.result.scores = EmptyDict)

EmptyBatch == documents = <<>> /\ predictions = <<>>

Degenerate(i) ==
    \/ documents[i].answers = <<>>
    \/ predictions[i] = <<>>
    \/ split(normalize_answer(predictions[i])) = <<>>

\* C6: on a non-empty batch no scorer raises, and a degenerate instance (empty
\* reference set, empty prediction, zero-token normalised prediction) scores
\* 0.0 in every per-instance score list.
C6_DegenerateNeverRaises ==
    (/\ outcome.status # "pending"
     /\ Len(documents) = Len(predictions)
     /\ Len(documents) >= 1)
    => /\ outcome.status = "returned"
       /\ IF outcome.callee = "BLEUScore"
          \* the corpus score stands for every instance: [bleu_score] * len(pred_list)
          THEN (\E i \in 1..Len(documents) : Degenerate(i))
               => outcome.result.bleu_power = Zero
          ELSE \A i \in 1..Len(outcome.result.metric_score_list) :
                  Degenerate(i) => outcome.result.metric_score_list[i] = Zero

InUnit(x) == RatLE(Zero, x) /\ RatLE(x, One)
InPercent(x) == RatLE(Zero, x) /\ RatLE(x, Rat(100, 1))

\* C8: each of f1, precision and recall returned by token_level_scores lies
\* in [0,1]; every per-instance score F1Score, PrecisionScore and RecallScore
\* collect lies in [0,1]; and every aggregate f1_score, precision and recall
\* reported for a batch lies in [0,100].
C8_ScoresBounded ==
    /\ scored.fn = "token_level_scores" =>
          /\ InUnit(scored.value.f1)
          /\ InUnit(scored.value.precision)
          /\ InUnit(scored.value.recall)
    /\ (/\ outcome.status = "returned"
        /\ outcome.callee \in {"F1Score", "PrecisionScore", "RecallScore",
                               "calculate_generation_metrics"}) =>
          /\ \A i \in 1..Len(outcome.result.metric_score_list) :
                InUnit(outcome.result.metric_score_list[i])
          /\ \A key \in DOMAIN outcome.result.scores
                         \cap {"f1_score", "precision", "recall"} :
                InPercent(outcome.result.scores[key])
          /\ outcome.callee = "calculate_generation_metrics" =>
                {"f1_score", "precision", "recall"} \subseteq DOMAIN outcome.result.scores

\* a prediction scored strictly between 0 and 1, with precision and recall
\* apart
C8_Witness ==
    /\ scored.fn = "token_level_scores"
    /\ RatLT(Zero, scored.value.f1) /\ RatLT(scored.value.f1, One)
    /\ scored.value.precision # scored.value.recall

-----------------------------------------------------------------------------
(* Properties of top_k_accuracy.                                           *)

KRange == (-MaxK)..MaxK

\* the accuracy of the call made is at most that of the same call with k2
NoMoreThanAt(k2) ==
    RatLE(retrieval.value, top_k_accuracy(documents, k2, retrieval.use_reordered))

\* C2 as stated: for a fixed document set and use_reordered flag,
\* top_k_accuracy(k) <= top_k_accuracy(k') for every pair of integers
\* k <= k', zero and negative k included.
C2_TopKMonotone ==
    retrieval.status = "returned" =>
        \A k2 \in KRange : retrieval.k <= k2 => NoMoreThanAt(k2)

\* C2 amended: for a fixed document set and use_reordered flag,
\* top_k_accuracy(k) <= top_k_accuracy(k') for every pair k <= k' of the
\* same sign (both >= 0, or both negative); top_k_accuracy(0) is 0.
C2_TopKMonotoneSameSign ==
    retrieval.status = "returned" =>
        /\ \A k2 \in KRange :
              (retrieval.k <= k2 /\ (retrieval.k >= 0 <=> k2 >= 0)) => NoMoreThanAt(k2)
        /\ retrieval.k = 0 => retrieval.value = Zero

\* a call with k >= 1 whose accuracy is above 0 and strictly below that of a
\* larger k
C2_Witness ==
    /\ retrieval.status = "returned"
    /\ retrieval.k >= 1
    /\ RatLT(Zero, retrieval.value)
    /\ \E k2 \in KRange :
          /\ retrieval.k < k2
          /\ RatLT(retrieval.value,
                   top_k_accuracy(documents, k2, retrieval.use_reordered))

\* the list the claim selects for document d
SelectedList(d) ==
    IF retrieval.use_reordered /\ Len(d.reorder_contexts) > 0
    THEN d.reorder_contexts ELSE d.contexts

\* some context at one of the positions 1..n of the selected list has the answer
AnswerAmongFirst(d, n) ==
    \E i \in 1..Len(SelectedList(d)) : i <= n /\ SelectedList(d)[i]

\* 100 * hits / total, and 0 for no documents
AccuracyOf(hits) ==
    IF Len(documents) = 0 THEN Zero
    ELSE Rat(100 * hits, Len(documents))

\* C9 as stated: top_k_accuracy(k, use_reordered) returns 100 * hits / total,
\* a document being a hit iff some context among the first k of its selected
\* list has has_answer = true; with no documents it returns 0.
C9_TopKValue ==
    retrieval.status = "returned" =>
        retrieval.value =
            AccuracyOf(Cardinality({i \in 1..Len(documents) :
                                       AnswerAmongFirst(documents[i], retrieval.k)}))

\* C9 amended: as stated for k >= 0; for k < 0 a document is a hit iff some
\* context among all but the last -k of its selected list has has_answer =
\* true.
C9_TopKValueSliced ==
    retrieval.status = "returned" =>
        retrieval.value =
            AccuracyOf(Cardinality({i \in 1..Len(documents) :
                AnswerAmongFirst(documents[i],
                    IF retrieval.k >= 0 THEN retrieval.k
                    ELSE Len(SelectedList(documents[i])) + retrieval.k)}))

\* two documents, one of them a hit, read from a reranked list that differs
\* from the retrieval order
C9_Witness ==
    /\ retrieval.status = "returned"
    /\ Len(documents) = 2
    /\ retrieval.value = Rat(50, 1)
    /\ retrieval.use_reordered
    /\ retrieval.k >= 1
    /\ \E i \in 1..2 : /\ documents[i].reorder_contexts # <<>>
                       /\ documents[i].reorder_contexts # documents[i].contexts

-----------------------------------------------------------------------------
(* Properties of BLEUScore.                                                *)

\* every translation of the corpus is its own single reference
SelfReference ==
    /\ Len(reference_corpus) = Len(translation_corpus)
    /\ \A i \in 1..Len(translation_corpus) :
          reference_corpus[i] = <<translation_corpus[i]>>

ComputedUnsmoothed ==
    /\ bleu_result.status # "pending"
    /\ ~bleu.smooth
    /\ bleu.max_order >= 1

\* C3 as stated: on a corpus in which each translation equals its single
\* reference, compute_bleu with smooth = false returns exactly 1.0, whatever
\* the translation lengths and for every max_order >= 1.
C3_SelfBleuIsOne ==
    (ComputedUnsmoothed /\ SelfReference)
    => (bleu_result.status = "returned" /\ bleu_result.result.bleu_power = One)

\* C3 amended: on such a corpus compute_bleu with smooth = false returns
\* exactly 1.0 when some translation has at least max_order tokens, and 0.0
\* otherwise (the empty corpus included).
C3_SelfBleuIsOneIfLongEnough ==
    (ComputedUnsmoothed /\ SelfReference)
    => /\ bleu_result.status = "returned"
       /\ bleu_result.result.bleu_power =
             IF \E i \in 1..Len(translation_corpus) :
                    Len(translation_corpus[i]) >= bleu.max_order
             THEN One ELSE Zero

\* a self-referencing corpus scored 1.0 at max_order 2 although one of its
\* translations is shorter than max_order
C3_Witness ==
    /\ ComputedUnsmoothed /\ SelfReference
    /\ bleu.max_order >= 2
    /\ bleu_result.result.bleu_power = One
    /\ \E i \in 1..Len(translation_corpus) :
          Len(translation_corpus[i]) \in 1..(bleu.max_order - 1)

\* C5: a BLEUScore is never constructed with bleu_max_order <= 0 (the
\* construction fails), so no call of compute_bleu is the first to raise
\* because of it.
C5_InvalidOrderRejected ==
    bleu.constructed => bleu.max_order >= 1

-----------------------------------------------------------------------------
(* Properties of the counts and precisions of compute_bleu.                *)

BleuReturned ==
    /\ entry = "compute_bleu"
    /\ bleu_result.status = "returned"

\* C11: whenever compute_bleu returns, with smoothing or without, every
\* order i has 0 <= matches_by_order[i] <= possible_matches_by_order[i],
\* every precision lies in [0,1], and so does the returned bleu (it is the
\* max_order-th root of bleu_power, which lies in [0,1]).
C11_BleuInUnitInterval ==
    BleuReturned =>
        LET r == bleu_result.result
        IN  /\ \A i \in 1..bleu.max_order :
                  /\ 0 <= r.matches_by_order[i]
                  /\ r.matches_by_order[i] <= r.possible_matches_by_order[i]
                  /\ InUnit(r.precisions[i])
            /\ InUnit(r.bleu_power)

\* a smoothed call in which some order matched some but not all of the
\* translation's n-grams: the score is strictly between 0 and 1
C11_Witness ==
    /\ BleuReturned
    /\ bleu.smooth
    /\ bleu.max_order >= 2
    /\ \E i \in 1..bleu.max_order :
          /\ 0 < bleu_result.result.matches_by_order[i]
          /\ bleu_result.result.matches_by_order[i]
                < bleu_result.result.possible_matches_by_order[i]
    /\ RatLT(Zero, bleu_result.result.bleu_power)
    /\ RatLT(bleu_result.result.bleu_power, One)

-----------------------------------------------------------------------------
(* token_level_scores as the per-sub-metric maximum over the references.   *)

\* the size of the multiset intersection of two token lists: the positions
\* of a whose token occurs, up to that position, no more often than in b
CommonTokens(a, b) ==
    Cardinality({i \in 1..Len(a) :
        Cardinality({j \in 1..i : a[j] = a[i]}) <= Count(b, a[i])})

\* the scores of one reference taken alone, as the claim gives them
ReferenceScores(pred_tokens, ref_tokens) ==
    LET num_same == CommonTokens(pred_tokens, ref_tokens)
    IN  IF num_same = 0
        THEN [f1 |-> Zero, precision |-> Zero, recall |-> Zero]
        ELSE LET p == Rat(num_same, Len(pred_tokens))
                 r == Rat(num_same, Len(ref_tokens))
             IN  [f1 |-> RatDiv(RatMul(Rat(2, 1), RatMul(p, r)), RatAdd(p, r)),
                  precision |-> p, recall |-> r]

\* the scores of reference i of the call taken alone
ScoresOfReference(i) ==
    ReferenceScores(split(normalize_answer(prediction)),
                    split(normalize_answer(ground_truths[i])))

\* v is the largest of the values xs[i], or 0 when there is none above 0
IsMaximum(v, xs) ==
    /\ \A i \in 1..Len(xs) : RatLE(xs[i], v)
    /\ v = Zero \/ \E i \in 1..Len(xs) : xs[i] = v

TokenScored ==
    /\ entry = "token_level_scores"
    /\ scored.fn = "token_level_scores"

-----------------------------------------------------------------------------
(* The clipped n-gram matches of compute_bleu.                             *)

\* the number of windows of the segment that hold the n-gram g
Occurrences(segment, g) ==
    Cardinality({i \in 1..(Len(segment) - Len(g) + 1) :
                    SubSeq(segment, i, i + Len(g) - 1) = g})

\* the sum, over the distinct n-grams g of the given order in the
\* translation, of min(count of g in the translation, largest count of g in
\* one reference): the windows of the translation whose n-gram has occurred,
\* up to that window, no more often than some reference holds it
ClippedMatches(references, translation, order) ==
    Cardinality({i \in 1..(Len(translation) - order + 1) :
        LET g == SubSeq(translation, i, i + order - 1)
            so_far == Cardinality({j \in 1..i :
                          SubSeq(translation, j, j + order - 1) = g})
        IN  \E k \in 1..Len(references) :
                so_far <= Occurrences(references[k], g)})

\* C13: the total compute_bleu returns in matches_by_order[order - 1] is the
\* sum over the zipped instances of, for every n-gram g of that order, the
\* count of g in the translation clipped to the largest count of g in any one
\* of the instance's references: references are merged by maximum, not by
\* summation.
C13_MatchesClippedToMaxReference ==
    BleuReturned =>
        \A order \in 1..bleu.max_order :
            bleu_result.result.matches_by_order[order] =
                SumSeq([i \in 1..Min(Len(reference_corpus), Len(translation_corpus)) |->
                           ClippedMatches(reference_corpus[i],
                                          translation_corpus[i], order)])

\* an instance whose translation repeats a token that each of two
\* references holds once: one match, where summing the references gives two
C13_Witness ==
    /\ BleuReturned
    /\ \E i \in 1..Min(Len(reference_corpus), Len(translation_corpus)) :
          \E g \in Tokens :
             /\ Occurrences(translation_corpus[i], <<g>>) >= 2
             /\ Cardinality({k \in 1..Len(reference_corpus[i]) :
                    Occurrences(reference_corpus[i][k], <<g>>) = 1}) >= 2
    /\ bleu_result.result.matches_by_order[1] = 1

=============================================================================
